---- MODULE Spec2Model ----
\* Model of Convertors/combining_datasets.py: the three-class dataset merger
\* (find_files, safe_read_table, canonicalize_columns, arabic_normalize,
\* map_label_for_row, merge_all).
\*
\* Python strings are sequences of characters.  An ASCII character is the
\* one-character string itself; a non-ASCII character is named by its Unicode
\* name ("ALEF", "TATWEEL", ...).  None and NaN are one-element sequences whose
\* element is no character, so that they compare unequal to every string.
EXTENDS Integers, Sequences, FiniteSets, TLC

VARIABLES
    DROP_UNMAPPED,       \* module constant, line 33 (user config)
    DEFAULT_MAP_TARGET,  \* module constant, line 34 (user config)
    DROP_EXACT_DUPLICATES, \* module constant, line 35 (user config)
    KEEP_ALL_COLUMNS,    \* module constant, line 36 (user config)
    label_map,           \* the value get_label_map() returns
    input_dir,           \* the files under INPUT_DIR: path -> file content
    pc,                  \* position of the run
    files,               \* merge_all: files
    fi,                  \* merge_all: index of the file the loop is at (1-based)
    all_rows,            \* merge_all: all_rows
    per_file_counts,     \* merge_all: per_file_counts
    merged,              \* merge_all: merged (the DataFrame, a sequence of rows)
    merged_columns,      \* merge_all: merged.columns
    disk,                \* the output artifacts on disk: artifact name -> content
    outcome,             \* history: what the loop did with each file of files
    writes,              \* history: the artifacts in the order they were written
    m_src, m_lbl, m_out, \* arguments and result of the last map_label_for_row call
    n_text, n_out,       \* argument and result of the last arabic_normalize call
    c_df, c_out,         \* argument and result of the last canonicalize_columns call
    r_path, r_file,      \* argument of the last safe_read_table call, content of the file
    r_out                \* outcome of the last safe_read_table call

vars == <<DROP_UNMAPPED, DEFAULT_MAP_TARGET, DROP_EXACT_DUPLICATES, KEEP_ALL_COLUMNS,
          label_map, input_dir,
          pc, files, fi, all_rows, per_file_counts, merged, merged_columns, disk,
          outcome, writes, m_src, m_lbl, m_out, n_text, n_out, c_df, c_out, r_path, r_file,
          r_out>>

cfgvars == <<DROP_UNMAPPED, DEFAULT_MAP_TARGET, DROP_EXACT_DUPLICATES, KEEP_ALL_COLUMNS,
             label_map, input_dir>>
runvars == <<files, fi, all_rows, per_file_counts, merged, merged_columns, disk,
             outcome, writes>>
mapvars == <<m_src, m_lbl, m_out>>
normvars == <<n_text, n_out>>
colvars == <<c_df, c_out>>
readvars == <<r_path, r_file, r_out>>
callvars == <<mapvars, normvars, colvars, readvars>>

\* ------------------------------------------------------------------ bounds

\* the largest number of files under INPUT_DIR
MaxFiles == 3
\* the longest text arabic_normalize is called with on its own
MaxTextLen == 3
\* the most columns of a table canonicalize_columns is called with on its own
MaxColumns == 3

\* ------------------------------------------------------------------ values

None == <<"<None>">>
NaN == <<"<NaN>">>

Min(S) == CHOOSE x \in S : \A y \in S : x <= y
Max(S) == CHOOSE x \in S : \A y \in S : x >= y
Range(s) == {s[k] : k \in DOMAIN s}

RECURSIVE Flatten(_)
Flatten(ss) == IF ss = << >> THEN << >> ELSE Head(ss) \o Flatten(Tail(ss))

RECURSIVE SetToSeq(_)
SetToSeq(S) == IF S = {} THEN << >> ELSE LET x == CHOOSE y \in S : TRUE IN <<x>> \o SetToSeq(S \ {x})

\* the characters of the model in code point order
Alphabet == <<"\t", " ", "-", ".", "/", "0", "1", "2", "3", "4", "5", "6", "7", "8", "9",
              "A", "B", "C", "D", "E", "F", "G", "H", "I", "J", "K", "L", "M", "N",
              "O", "P", "Q", "R", "S", "T", "U", "V", "W", "X", "Y", "Z", "_",
              "a", "b", "c", "d", "e", "f", "g", "h", "i", "j", "k", "l", "m", "n",
              "o", "p", "q", "r", "s", "t", "u", "v", "w", "x", "y", "z",
              "NBSP", "ALEF_MADDA", "ALEF_HAMZA_ABOVE", "ALEF_HAMZA_BELOW", "YEH_HAMZA",
              "ALEF", "TATWEEL", "ALEF_MAKSURA", "YEH", "FATHA", "MADDA_ABOVE",
              "HAMZA_ABOVE", "HAMZA_BELOW", "SUPERSCRIPT_ALEF">>

CodePoint(c) == CHOOSE k \in DOMAIN Alphabet : Alphabet[k] = c

\* s < t as Python compares str values: by code point, a proper prefix first
RECURSIVE StrLess(_, _)
StrLess(s, t) ==
    IF t = << >> THEN FALSE
    ELSE IF s = << >> THEN TRUE
    ELSE IF Head(s) = Head(t) THEN StrLess(Tail(s), Tail(t))
    ELSE CodePoint(Head(s)) < CodePoint(Head(t))

\* str(n) of a non-negative int
Digits == <<"0", "1", "2", "3", "4", "5", "6", "7", "8", "9">>
RECURSIVE IntToStr(_)
IntToStr(n) == IF n < 10 THEN <<Digits[n + 1]>> ELSE IntToStr(n \div 10) \o <<Digits[(n % 10) + 1]>>

\* str(v) and Series.astype(str) of one cell
Str(v) == IF v = NaN THEN <<"n","a","n">> ELSE IF v = None THEN <<"N","o","n","e">> ELSE v

\* str.lower()
ToLower == [A |-> "a", B |-> "b", C |-> "c", D |-> "d", E |-> "e", F |-> "f", G |-> "g",
            H |-> "h", I |-> "i", J |-> "j", K |-> "k", L |-> "l", M |-> "m", N |-> "n",
            O |-> "o", P |-> "p", Q |-> "q", R |-> "r", S |-> "s", T |-> "t", U |-> "u",
            V |-> "v", W |-> "w", X |-> "x", Y |-> "y", Z |-> "z"]
LowerChar(c) == IF c \in DOMAIN ToLower THEN ToLower[c] ELSE c
Lower(s) == [k \in 1..Len(s) |-> LowerChar(s[k])]

\* str.isspace() of one character, also what \s matches
IsSpace(c) == c \in {" ", "\t", "NBSP"}

\* str.strip()
Strip(s) ==
    LET idx == {k \in 1..Len(s) : ~IsSpace(s[k])}
    IN  IF idx = {} THEN << >> ELSE SubSeq(s, Min(idx), Max(idx))

\* ------------------------------------------------------------------ configuration

CANONICAL_LABELS == {<<"n","o","r","m","a","l">>, <<"o","f","f","e","n","s","i","v","e">>, <<"p","r","o","f","a","n","i","t","y">>}

\* the dict get_label_map() returns as the repository has it
get_label_map ==
    (<<"a","l","l">> :> (
        (<<"N","e","u","t","r","a","l">> :> <<"n","o","r","m","a","l">>) @@ (<<"P","o","s","i","t","i","v","e">> :> <<"n","o","r","m","a","l">>) @@
        (<<"N","e","g","a","t","i","v","e">> :> <<"o","f","f","e","n","s","i","v","e">>) @@ (<<"A","D","U","L","T">> :> <<"p","r","o","f","a","n","i","t","y">>) @@
        (<<"N","O","T","_","A","D","U","L","T">> :> <<"n","o","r","m","a","l">>) @@ (<<"n","o">> :> <<"n","o","r","m","a","l">>) @@
        (<<"y","e","s">> :> <<"o","f","f","e","n","s","i","v","e">>) @@ (<<"n","e","u","t","r","a","l">> :> <<"n","o","r","m","a","l">>) @@
        (<<"n","e","g","a","t","i","v","e">> :> <<"o","f","f","e","n","s","i","v","e">>) @@ (<<"p","o","s","i","t","i","v","e">> :> <<"n","o","r","m","a","l">>) @@
        (<<"o","f","f","e","n","s","i","v","e">> :> <<"o","f","f","e","n","s","i","v","e">>) @@ (<<"n","o","t">> :> <<"n","o","r","m","a","l">>) @@
        (<<"O","f","f","e","n","s","i","v","e">> :> <<"o","f","f","e","n","s","i","v","e">>) @@ (<<"n","o","n","-","o","f","f","e","n","s","i","v","e">> :> <<"n","o","r","m","a","l">>) @@
        (<<"N","o","n","-","o","f","f","e","n","s","i","v","e">> :> <<"n","o","r","m","a","l">>) @@ (<<"a","b","u","s","i","v","e">> :> <<"p","r","o","f","a","n","i","t","y">>) @@
        (<<"n","o","r","m","a","l">> :> <<"n","o","r","m","a","l">>) @@ (<<"h","a","t","e">> :> <<"o","f","f","e","n","s","i","v","e">>) @@
        (<<"B","u","l","l","y","i","n","g">> :> <<"o","f","f","e","n","s","i","v","e">>) @@ (<<"n","o","n","-","b","u","l","l","y","i","n","g">> :> <<"n","o","r","m","a","l">>) @@
        (<<"n","o","n","e">> :> <<"n","o","r","m","a","l">>) @@ (<<"N","o","n","e">> :> <<"n","o","r","m","a","l">>) @@
        (<<"H","A","T","E">> :> <<"o","f","f","e","n","s","i","v","e">>) @@ (<<"O","F","F","E","N","S","I","V","E">> :> <<"o","f","f","e","n","s","i","v","e">>) @@
        (<<"N","O","R","M","A","L">> :> <<"n","o","r","m","a","l">>) @@ (<< >> :> <<"n","o","r","m","a","l">>) @@
        (<<"c","y","b","e","r">> :> <<"o","f","f","e","n","s","i","v","e">>) @@ (<<"n","o","t"," ","c","y","b","e","r">> :> <<"n","o","r","m","a","l">>)))

\* a dict edited as the docstring of get_label_map describes: a per-source table,
\* the global table and the table under the empty key; values as a user may type them
EditedLabelMap ==
    (<<"a">> :> ((<<"y","e","s">> :> <<"n","o","r","m","a","l">>) @@ (<<"1">> :> <<"p","r","o","f","a","n","i","t","y">>) @@ (<<"b","a","d">> :> <<" ","O","f","f","e","n","s","i","v","e"," ">>))) @@
    (<<"a","l","l">> :> ((<<"y","e","s">> :> <<"o","f","f","e","n","s","i","v","e">>) @@ (<<"h","a","t","e">> :> <<"t","o","x","i","c">>) @@ (<<" ","n","o">> :> <<"o","f","f","e","n","s","i","v","e">>))) @@
    (<< >> :> ((<<"o","d","d">> :> <<"p","r","o","f","a","n","i","t","y">>) @@ (<<"y","e","s">> :> <<"p","r","o","f","a","n","i","t","y">>)))

\* a dict with no global table
SourceOnlyLabelMap ==
    (<<"f">> :> ((<<"s","w","e","a","r">> :> <<"p","r","o","f","a","n","i","t","y">>) @@ (<<"0">> :> <<"o","f","f","e","n","s","i","v","e">>)))

LabelMaps == {get_label_map, EditedLabelMap, SourceOnlyLabelMap}

\* values of DEFAULT_MAP_TARGET: the repository's, another canonical label, and
\* two values a user may type that are no canonical label
DefaultTargets == {<<"n","o","r","m","a","l">>, <<"p","r","o","f","a","n","i","t","y">>, <<"N","o","r","m","a","l">>, <<"s","p","a","m">>}

\* ------------------------------------------------------------------ map_label_for_row

NormalWords == {<<"0">>, <<"n","o","n","e">>, <<"n","e","u","t","r","a","l">>, <<"n","o","r","m","a","l">>, <<"c","l","e","a","n">>, <<"n","o","n">>}
OffensiveWords == {<<"1">>, <<"o","f","f","e","n","s","i","v","e">>, <<"o","f","f","e","n","c","e">>, <<"a","b","u","s","i","v","e">>, <<"h","a","t","e">>, <<"a","b","u","s","e">>, <<"t","o","x","i","c">>, <<"i","n","s","u","l","t">>}
ProfanityWords == {<<"2">>, <<"p","r","o","f","a","n","i","t","y">>, <<"s","w","e","a","r">>, <<"s","w","e","a","r","_","w","o","r","d">>, <<"v","u","l","g","a","r">>, <<"o","b","s","c","e","n","e">>}

\* line 177
TrimLabel(lbl_raw) == IF lbl_raw = None THEN << >> ELSE Strip(Str(lbl_raw))

\* lines 178-184 with the global table consulted before the table of the source
LookupOverrideGlobalFirst(src, lbl, lm) ==
    IF <<"a","l","l">> \in DOMAIN lm /\ lbl \in DOMAIN lm[<<"a","l","l">>] THEN lm[<<"a","l","l">>][lbl]
    ELSE IF src \in DOMAIN lm /\ lbl \in DOMAIN lm[src] THEN lm[src][lbl]
    ELSE IF << >> \in DOMAIN lm /\ lbl \in DOMAIN lm[<< >>] THEN lm[<< >>][lbl]
    ELSE None

\* lines 178-184: the override tables, first match wins; None when no table has the key
LookupOverride(src, lbl, lm) ==
    IF src \in DOMAIN lm /\ lbl \in DOMAIN lm[src] THEN lm[src][lbl]
    ELSE IF <<"a","l","l">> \in DOMAIN lm /\ lbl \in DOMAIN lm[<<"a","l","l">>] THEN lm[<<"a","l","l">>][lbl]
    ELSE IF << >> \in DOMAIN lm /\ lbl \in DOMAIN lm[<< >>] THEN lm[<< >>][lbl]
    ELSE None

\* lines 186-193 without the test of mapped at line 186: a keyword replaces the
\* value an override table gave
LookupKeywordAlways(mapped, lbl) ==
    LET low == Lower(lbl)
    IN  IF lbl # << >> /\ low \in NormalWords THEN <<"n","o","r","m","a","l">>
        ELSE IF lbl # << >> /\ low \in OffensiveWords THEN <<"o","f","f","e","n","s","i","v","e">>
        ELSE IF lbl # << >> /\ low \in ProfanityWords THEN <<"p","r","o","f","a","n","i","t","y">>
        ELSE mapped

\* lines 186-193: the keyword sets, tried only for a non-empty label
LookupKeyword(mapped, lbl) ==
    IF mapped = None /\ lbl # << >>
    THEN LET low == Lower(lbl)
         IN  IF low \in NormalWords THEN <<"n","o","r","m","a","l">>
             ELSE IF low \in OffensiveWords THEN <<"o","f","f","e","n","s","i","v","e">>
             ELSE IF low \in ProfanityWords THEN <<"p","r","o","f","a","n","i","t","y">>
             ELSE None
    ELSE mapped

\* the value of mapped at line 194
Resolve(src, lbl_raw, lm) ==
    LookupKeyword(LookupOverride(src, TrimLabel(lbl_raw), lm), TrimLabel(lbl_raw))

\* lines 199-202 without the check of line 200
CoerceUnchecked(mapped) == Strip(Lower(mapped))

\* lines 199-202
Coerce(mapped) ==
    LET m == Strip(Lower(mapped))
    IN  IF m \notin CANONICAL_LABELS THEN DEFAULT_MAP_TARGET ELSE m

\* lines 176-202 with line 195 dropping whatever DROP_UNMAPPED is
map_label_for_row_always_drops(src, lbl_raw, lm) ==
    LET mapped == Resolve(src, lbl_raw, lm)
    IN  IF mapped = None THEN None ELSE Coerce(mapped)

\* lines 176-202; None is the value returned at line 196
map_label_for_row(src, lbl_raw, lm) ==
    LET mapped == Resolve(src, lbl_raw, lm)
    IN  IF mapped = None
        THEN IF DROP_UNMAPPED THEN None ELSE Coerce(DEFAULT_MAP_TARGET)
        ELSE Coerce(mapped)

\* ------------------------------------------------------------------ arabic_normalize

\* unicodedata.normalize('NFKC', .) on the characters of the model: compatibility
\* decomposition, canonical ordering by combining class, canonical composition
Decomposition(c) ==
    CASE c = "NBSP" -> <<" ">>
      [] c = "ALEF_MADDA" -> <<"ALEF", "MADDA_ABOVE">>
      [] c = "ALEF_HAMZA_ABOVE" -> <<"ALEF", "HAMZA_ABOVE">>
      [] c = "ALEF_HAMZA_BELOW" -> <<"ALEF", "HAMZA_BELOW">>
      [] c = "YEH_HAMZA" -> <<"YEH", "HAMZA_ABOVE">>
      [] OTHER -> <<c>>

CombiningClass(c) ==
    CASE c = "FATHA" -> 30
      [] c = "SUPERSCRIPT_ALEF" -> 35
      [] c = "HAMZA_BELOW" -> 220
      [] c \in {"MADDA_ABOVE", "HAMZA_ABOVE"} -> 230
      [] OTHER -> 0

\* the primary composite of a starter and a mark; None when there is none
Composite(starter, mark) ==
    CASE starter = "ALEF" /\ mark = "MADDA_ABOVE" -> "ALEF_MADDA"
      [] starter = "ALEF" /\ mark = "HAMZA_ABOVE" -> "ALEF_HAMZA_ABOVE"
      [] starter = "ALEF" /\ mark = "HAMZA_BELOW" -> "ALEF_HAMZA_BELOW"
      [] starter = "YEH" /\ mark = "HAMZA_ABOVE" -> "YEH_HAMZA"
      [] OTHER -> "<none>"

Decompose(s) == Flatten([k \in 1..Len(s) |-> Decomposition(s[k])])

RECURSIVE InsertOrdered(_, _)
InsertOrdered(acc, c) ==
    IF acc # << >> /\ CombiningClass(c) > 0 /\ CombiningClass(acc[Len(acc)]) > CombiningClass(c)
    THEN Append(InsertOrdered(SubSeq(acc, 1, Len(acc) - 1), c), acc[Len(acc)])
    ELSE Append(acc, c)

RECURSIVE CanonicalOrder(_, _)
CanonicalOrder(acc, s) ==
    IF s = << >> THEN acc ELSE CanonicalOrder(InsertOrdered(acc, Head(s)), Tail(s))

\* out: the composed prefix; sp: the index in out of its last starter (0: none)
RECURSIVE ComposeFrom(_, _, _)
ComposeFrom(out, sp, s) ==
    IF s = << >> THEN out
    ELSE LET c == Head(s)
             cc == CombiningClass(c)
             blocked == Len(out) > sp /\ CombiningClass(out[Len(out)]) >= cc
             composes == sp > 0 /\ cc > 0 /\ ~blocked /\ Composite(out[sp], c) # "<none>"
         IN  IF composes
             THEN ComposeFrom([out EXCEPT ![sp] = Composite(out[sp], c)], sp, Tail(s))
             ELSE ComposeFrom(Append(out, c), IF cc = 0 THEN Len(out) + 1 ELSE sp, Tail(s))

NFKC(s) == ComposeFrom(<< >>, 0, CanonicalOrder(<< >>, Decompose(s)))

Remove(s, chars) == SelectSeq(s, LAMBDA c : c \notin chars)
Replace(s, chars, by) == [k \in 1..Len(s) |-> IF s[k] \in chars THEN by ELSE s[k]]

\* the characters of [ً-ٰٟ] among the characters of the model
Diacritics == {"FATHA", "MADDA_ABOVE", "HAMZA_ABOVE", "HAMZA_BELOW", "SUPERSCRIPT_ALEF"}

\* re.sub(r'\s+', ' ', text)
CollapseSpaces(s) ==
    LET firsts == SelectSeq([k \in 1..Len(s) |-> k],
                            LAMBDA k : ~IsSpace(s[k]) \/ k = 1 \/ ~IsSpace(s[k - 1]))
    IN  [j \in 1..Len(firsts) |-> IF IsSpace(s[firsts[j]]) THEN " " ELSE s[firsts[j]]]

\* the steps of lines 169-173 with the whitespace step moved before the others
arabic_normalize_spaces_first(text) ==
    LET t0 == IF text = None THEN << >> ELSE Str(text)
        t1 == Strip(CollapseSpaces(NFKC(t0)))
        t2 == Remove(t1, {"TATWEEL"})
        t3 == Replace(t2, {"ALEF_HAMZA_BELOW", "ALEF_HAMZA_ABOVE", "ALEF_MADDA"}, "ALEF")
        t4 == Remove(t3, Diacritics)
    IN  Replace(t4, {"ALEF_MAKSURA"}, "YEH")

\* lines 165-174
arabic_normalize(text) ==
    LET t0 == IF text = None THEN << >> ELSE Str(text)
        t1 == NFKC(t0)
        t2 == Remove(t1, {"TATWEEL"})
        t3 == Replace(t2, {"ALEF_HAMZA_BELOW", "ALEF_HAMZA_ABOVE", "ALEF_MADDA"}, "ALEF")
        t4 == Remove(t3, Diacritics)
        t5 == Replace(t4, {"ALEF_MAKSURA"}, "YEH")
    IN  Strip(CollapseSpaces(t5))

\* ------------------------------------------------------------------ files

\* os.path.basename
Basename(path) ==
    LET slashes == {k \in 1..Len(path) : path[k] = "/"}
    IN  IF slashes = {} THEN path ELSE SubSeq(path, Max(slashes) + 1, Len(path))

\* os.path.splitext of a name without directories: <<root, ext>>; the extension
\* starts at the last dot that follows a character other than a dot
SplitExt(name) ==
    LET dots == {k \in 2..Len(name) : name[k] = "." /\ \E j \in 1..(k - 1) : name[j] # "."}
    IN  IF dots = {} THEN <<name, << >> >>
        ELSE <<SubSeq(name, 1, Max(dots) - 1), SubSeq(name, Max(dots), Len(name))>>

\* lines 107-108: the extensions of the glob patterns
Patterns == {<<".","c","s","v">>, <<".","t","s","v">>, <<".","j","s","o","n">>, <<".","x","l","s","x">>, <<".","x","l","s">>, <<".","p","a","r","q","u","e","t">>}

\* lines 106-113
find_files(dir) ==
    SortSeq(SetToSeq({p \in DOMAIN dir : SplitExt(Basename(p))[2] \in Patterns}), StrLess)

NoTable == [columns |-> << >>, strcols |-> {}, rows |-> << >>]

\* An exception of safe_read_table: its type and message, the path the message
\* names (None when it names none) and the failed attempt whose exception it
\* carries ("" when it carries none)
NoError == [exception |-> "", path |-> None, cause |-> ""]

\* line 124: a raise statement with no exception being handled
BareRaise ==
    [exception |-> "RuntimeError: No active exception to reraise", path |-> None, cause |-> ""]

\* the exception of a pandas reader call, passed on unchanged
ReaderError(reader) == [exception |-> "pandas", path |-> None, cause |-> reader]

\* line 135
Unsupported(path) ==
    [exception |-> "ValueError: Unsupported file type", path |-> path, cause |-> ""]

\* line 119
Encodings == <<"utf-8", "utf-8-sig", "latin1", "cp1256">>

\* lines 119-124: the first encoding pd.read_csv succeeds with; after the last one
\* has failed, line 124 is a raise outside any except block
RECURSIVE TryEncodings(_, _)
TryEncodings(f, k) ==
    IF k > Len(Encodings)
    THEN [ok |-> FALSE, df |-> NoTable, tried |-> Encodings, error |-> BareRaise]
    ELSE IF Encodings[k] \in f.readable
    THEN [ok |-> TRUE, df |-> f.table, tried |-> SubSeq(Encodings, 1, k), error |-> NoError]
    ELSE TryEncodings(f, k + 1)

\* one reader call that either returns the table or raises
TryReader(f, reader) ==
    IF reader \in f.readable
    THEN [ok |-> TRUE, df |-> f.table, tried |-> <<reader>>, error |-> NoError]
    ELSE [ok |-> FALSE, df |-> NoTable, tried |-> <<reader>>, error |-> ReaderError(reader)]

\* lines 115-135; f is the content of the file at path
safe_read_table(path, f) ==
    LET ext == Lower(SplitExt(Basename(path))[2])
    IN  IF ext \in {<<".","c","s","v">>, <<".","t","s","v">>} THEN TryEncodings(f, 1)
        ELSE IF ext = <<".","j","s","o","n">>
        THEN IF "json-lines" \in f.readable
             THEN TryReader(f, "json-lines")
             ELSE [TryReader(f, "json") EXCEPT !.tried = <<"json-lines", "json">>]
        ELSE IF ext \in {<<".","x","l","s","x">>, <<".","x","l","s">>} THEN TryReader(f, "excel")
        ELSE IF ext = <<".","p","a","r","q","u","e","t">> THEN TryReader(f, "parquet")
        ELSE [ok |-> FALSE, df |-> NoTable, tried |-> << >>, error |-> Unsupported(path)]

\* before any call of safe_read_table
NoResult == [ok |-> FALSE, df |-> NoTable, tried |-> << >>, error |-> NoError]

\* ------------------------------------------------------------------ canonicalize_columns

\* line 143: cols = {c.lower(): c for c in df.columns}; a later column replaces an
\* earlier one with the same lower-cased name.  None when name is no key of cols
ColsGet(df, name) ==
    LET hits == {k \in 1..Len(df.columns) : Lower(df.columns[k]) = name}
    IN  IF hits = {} THEN None ELSE df.columns[Max(hits)]

\* the loops of lines 145-147, 154-156 and 159-161: the first preferred name in cols
RECURSIVE FirstPreferred(_, _)
FirstPreferred(df, names) ==
    IF names = << >> THEN None
    ELSE IF ColsGet(df, Head(names)) # None THEN ColsGet(df, Head(names))
    ELSE FirstPreferred(df, Tail(names))

prefer_text_fields == <<<<"t","e","x","t">>, <<"c","o","n","t","e","n","t">>, <<"t","w","e","e","t">>, <<"s","e","n","t","e","n","c","e">>, <<"c","o","m","m","e","n","t">>, <<"p","o","s","t">>>>
prefer_label_fields == <<<<"l","a","b","e","l">>, <<"t","a","r","g","e","t">>, <<"c","l","a","s","s">>, <<"a","n","n","o","t","a","t","i","o","n">>, <<"y">>>>
id_candidates == <<<<"i","d">>, <<"u","i","d">>, <<"p","o","s","t","_","i","d">>, <<"t","w","e","e","t","_","i","d">>, <<"i","d","x">>>>

\* lines 148-151: the first column pandas reports as string-typed
FirstStringColumn(df) ==
    LET hits == {k \in 1..Len(df.columns) : df.columns[k] \in df.strcols}
    IN  IF hits = {} THEN None ELSE df.columns[Min(hits)]

\* lines 137-163: <<text_col, label_col, id_col>>
canonicalize_columns(df) ==
    LET preferred == FirstPreferred(df, prefer_text_fields)
        text_col == IF preferred # None THEN preferred ELSE FirstStringColumn(df)
    IN  <<text_col, FirstPreferred(df, prefer_label_fields), FirstPreferred(df, id_candidates)>>

\* ------------------------------------------------------------------ the input files

\* File contents: the reader calls that succeed on the file (an encoding for
\* pd.read_csv, "json-lines", "json", "excel", "parquet") and the table they give:
\* column names, the columns pandas reports as string-typed, the rows.
FileA1 ==
    [readable |-> {"utf-8", "utf-8-sig", "latin1", "cp1256"},
     table |-> [columns |-> <<<<"t","e","x","t">>, <<"l","a","b","e","l">>>>, strcols |-> {<<"t","e","x","t">>, <<"l","a","b","e","l">>},
                rows |-> << <<<<" ","a"," "," ","b"," ">>, <<"y","e","s">>>>,
                            <<<<"ALEF_MADDA", "TATWEEL", "b", "FATHA", "ALEF_MAKSURA">>, <<"w","e","i","r","d">>>> >>]]

FileA2 ==
    [readable |-> {"latin1", "cp1256"},
     table |-> [columns |-> <<<<"i","d">>, <<"T","w","e","e","t">>, <<"C","l","a","s","s">>>>, strcols |-> {<<"i","d">>, <<"T","w","e","e","t">>, <<"C","l","a","s","s">>},
                rows |-> << <<<<"7">>, <<"x">>, <<"1">>>>, <<<<"7">>, <<"a"," ","b">>, <<" ","b","a","d">>>> >>]]

FileA3 ==
    [readable |-> {"utf-8", "utf-8-sig", "latin1", "cp1256"},
     table |-> [columns |-> <<<<"c","o","m","m","e","n","t">>>>, strcols |-> {<<"c","o","m","m","e","n","t">>},
                rows |-> << <<<<"a"," ","b">>>> >>]]

FileB ==
    [readable |-> {}, table |-> NoTable]

FileC ==
    [readable |-> {"json"},
     table |-> [columns |-> <<<<"s","c","o","r","e">>>>, strcols |-> {},
                rows |-> << <<<<"1">>>> >>]]

FileE ==
    [readable |-> {"excel"},
     table |-> [columns |-> <<<<"t","e","x","t">>, <<"T","e","x","t">>, <<"l","a","b","e","l">>, <<"i","d","x">>>>,
                strcols |-> {<<"t","e","x","t">>, <<"l","a","b","e","l">>, <<"i","d","x">>},
                rows |-> << <<<<"l","o","w","e","r">>, NaN, <<"h","a","t","e">>, <<"0">>>> >>]]

FileF ==
    [readable |-> {"parquet"},
     table |-> [columns |-> <<<<"n">>, <<"b","o","d","y">>, <<"y">>>>, strcols |-> {<<"b","o","d","y">>, <<"y">>},
                rows |-> << <<<<"1">>, <<"u">>, <<"s","w","e","a","r">>>>, <<<<"2">>, <<"YEH_HAMZA", " ">>, <<"0">>>>,
                            <<<<"3">>, <<"w">>, NaN>> >>]]

FileN ==
    [readable |-> {"utf-8", "utf-8-sig", "latin1", "cp1256"},
     table |-> [columns |-> <<<<"t","e","x","t">>>>, strcols |-> {<<"t","e","x","t">>},
                rows |-> << <<<<"n","o","t","e">>>> >>]]

\* every file the directory under INPUT_DIR may hold: path -> content
FileUniverse ==
    (<<"d","1","/","a",".","c","s","v">> :> FileA1) @@ (<<"d","2","/","a",".","c","s","v">> :> FileA2) @@ (<<"a",".","t","s","v">> :> FileA3) @@
    (<<"b",".","t","s","v">> :> FileB) @@ (<<"c",".","j","s","o","n">> :> FileC) @@ (<<"e",".","x","l","s","x">> :> FileE) @@
    (<<"f",".","p","a","r","q","u","e","t">> :> FileF) @@ (<<"n","o","t","e","s",".","t","x","t">> :> FileN)

Directories ==
    {[p \in paths |-> FileUniverse[p]] :
        paths \in {ps \in SUBSET DOMAIN FileUniverse : Cardinality(ps) <= MaxFiles}}

\* ------------------------------------------------------------------ merge_all

OUTPUT_PATH == "Merged_dataset.csv"
PER_SOURCE_DIST_OUT == "merged_3class_per_source_distribution.csv"
SUMMARY_JSON_OUT == "merged_3class_summary.json"
ORIGINAL_TEXT_COL == <<"o","r","i","g","i","n","a","l","_","t","e","x","t">>

Artifacts == {OUTPUT_PATH, PER_SOURCE_DIST_OUT, SUMMARY_JSON_OUT}

\* row[col] of a row of df
Cell(df, row, col) == row[CHOOSE k \in 1..Len(df.columns) : df.columns[k] = col]

\* line 216 for the file at position k of files
ReadResult(k) == safe_read_table(files[k], input_dir[files[k]])

\* line 220
SourceName(k) == SplitExt(Basename(files[k]))[1]

\* line 221
ColumnRoles(k) == canonicalize_columns(ReadResult(k).df)

\* lines 226-237: the text, label and id columns as str (NaN becomes "nan"), a
\* '__no_label__' column of empty strings when there is no label column, an
\* '_auto_idx_' column of the stringified row positions when there is no id column
PrepareFrame(df, text_col, label_col, id_col) ==
    LET asstr == {text_col, label_col, id_col} \ {None}
        added == (IF label_col = None THEN <<<<"_","_","n","o","_","l","a","b","e","l","_","_">>>> ELSE << >>)
                 \o (IF id_col = None THEN <<<<"_","a","u","t","o","_","i","d","x","_">>>> ELSE << >>)
        Row(r) == [k \in 1..Len(df.columns) |->
                      IF df.columns[k] \in asstr THEN Str(df.rows[r][k]) ELSE df.rows[r][k]]
                  \o (IF label_col = None THEN << << >> >> ELSE << >>)
                  \o (IF id_col = None THEN <<IntToStr(r - 1)>> ELSE << >>)
    IN  [columns |-> df.columns \o added,
         strcols |-> df.strcols,
         rows |-> [r \in 1..Len(df.rows) |-> Row(r)]]

\* lines 257-260: the orig__<col> entries of a data row
AuditName(col) == <<"o","r","i","g","_","_">> \o col
AuditColumns(df, row) ==
    IF KEEP_ALL_COLUMNS
    THEN [name \in {AuditName(c) : c \in Range(df.columns)} |->
             Cell(df, row, SubSeq(name, Len(<<"o","r","i","g","_","_">>) + 1, Len(name)))]
    ELSE << >>

\* lines 239-262: rows_from_file of the file at position k, which was read and has
\* a text column.  origin is not a column: it names the input row (file position,
\* row position) the data row was made from
RowsFromFile(k) ==
    LET roles == ColumnRoles(k)
        text_col == roles[1]
        label_col == IF roles[2] = None THEN <<"_","_","n","o","_","l","a","b","e","l","_","_">> ELSE roles[2]
        id_col == IF roles[3] = None THEN <<"_","a","u","t","o","_","i","d","x","_">> ELSE roles[3]
        df == PrepareFrame(ReadResult(k).df, roles[1], roles[2], roles[3])
        src == SourceName(k)
        Mapped(r) == map_label_for_row(src, Cell(df, df.rows[r], label_col), label_map)
        DataRow(r) ==
            [global_id |-> src \o <<"_">> \o Cell(df, df.rows[r], id_col),
             source |-> src,
             text |-> arabic_normalize(Cell(df, df.rows[r], text_col)),
             label_orig |-> Cell(df, df.rows[r], label_col),
             label |-> Mapped(r),
             audit |-> AuditColumns(df, df.rows[r]),
             origin |-> <<k, r>>]
        kept == SelectSeq([r \in 1..Len(df.rows) |-> r], LAMBDA r : Mapped(r) # None)
    IN  [j \in 1..Len(kept) |-> DataRow(kept[j])]

\* line 209
Discover ==
    /\ pc = "start"
    /\ files' = find_files(input_dir)
    /\ fi' = 1
    /\ pc' = "loop"
    /\ UNCHANGED <<cfgvars, all_rows, per_file_counts, merged, merged_columns, disk,
                   outcome, writes, callvars>>

\* lines 215-219 with the exception left to end the run
SkipUnreadableAborts ==
    /\ pc = "loop" /\ fi <= Len(files)
    /\ ~ReadResult(fi).ok
    /\ pc' = "failed"
    /\ outcome' = Append(outcome, "unreadable")
    /\ UNCHANGED <<cfgvars, files, fi, all_rows, per_file_counts, merged, merged_columns,
                   disk, writes, callvars>>

\* lines 215-219: safe_read_table raised
SkipUnreadable ==
    /\ pc = "loop" /\ fi <= Len(files)
    /\ ~ReadResult(fi).ok
    /\ fi' = fi + 1
    /\ outcome' = Append(outcome, "unreadable")
    /\ UNCHANGED <<cfgvars, pc, files, all_rows, per_file_counts, merged, merged_columns,
                   disk, writes, callvars>>

\* lines 221-224: no text column
SkipNoText ==
    /\ pc = "loop" /\ fi <= Len(files)
    /\ ReadResult(fi).ok
    /\ ColumnRoles(fi)[1] = None
    /\ fi' = fi + 1
    /\ outcome' = Append(outcome, "no_text")
    /\ UNCHANGED <<cfgvars, pc, files, all_rows, per_file_counts, merged, merged_columns,
                   disk, writes, callvars>>

\* line 264: per_file_counts[fname] = n replaces an entry fname already has
RecordCountKeepFirst(counts, fname, n) == counts @@ (fname :> n)

RecordCount(counts, fname, n) == (fname :> n) @@ counts

\* lines 264-266 followed by a write of the rows collected so far
CollectRowsThenWrite ==
    /\ pc = "loop" /\ fi <= Len(files)
    /\ ReadResult(fi).ok
    /\ ColumnRoles(fi)[1] # None
    /\ per_file_counts' = RecordCount(per_file_counts, SourceName(fi), Len(RowsFromFile(fi)))
    /\ all_rows' = all_rows \o RowsFromFile(fi)
    /\ fi' = fi + 1
    /\ outcome' = Append(outcome, "collected")
    /\ disk' = (OUTPUT_PATH :> [columns |-> {}, rows |-> all_rows']) @@ disk
    /\ writes' = Append(writes, OUTPUT_PATH)
    /\ UNCHANGED <<cfgvars, pc, files, merged, merged_columns, callvars>>

\* lines 226-266
CollectRows ==
    /\ pc = "loop" /\ fi <= Len(files)
    /\ ReadResult(fi).ok
    /\ ColumnRoles(fi)[1] # None
    /\ per_file_counts' = RecordCount(per_file_counts, SourceName(fi), Len(RowsFromFile(fi)))
    /\ all_rows' = all_rows \o RowsFromFile(fi)
    /\ fi' = fi + 1
    /\ outcome' = Append(outcome, "collected")
    /\ UNCHANGED <<cfgvars, pc, files, merged, merged_columns, disk, writes, callvars>>

\* line 268
NoFileCollected == per_file_counts = << >>

NoRowsCollected == Len(all_rows) = 0

\* lines 268-269: the RuntimeError
RaiseNoRows ==
    /\ pc = "loop" /\ fi > Len(files)
    /\ NoRowsCollected
    /\ pc' = "failed"
    /\ UNCHANGED <<cfgvars, runvars, callvars>>

\* line 271: the columns of pd.DataFrame(all_rows)
FrameColumns(rows) ==
    {<<"g","l","o","b","a","l","_","i","d">>, <<"s","o","u","r","c","e">>, <<"t","e","x","t">>, <<"l","a","b","e","l","_","o","r","i","g">>, <<"l","a","b","e","l">>}
    \cup UNION {DOMAIN rows[k].audit : k \in 1..Len(rows)}

\* line 273: int(merged.duplicated(subset=['text']).sum()), the rows whose text an
\* earlier row has; lines 274-277 print it and nothing else reads it
duplicates_count(rows) ==
    Cardinality({k \in 1..Len(rows) : \E j \in 1..(k - 1) : rows[j].text = rows[k].text})

\* lines 279-282
Revalidate(label) == IF label \in CANONICAL_LABELS THEN label ELSE DEFAULT_MAP_TARGET

\* lines 284-285: the value of the ORIGINAL_TEXT_COL column of a row
OriginalText(row, columns) ==
    IF ORIGINAL_TEXT_COL \notin columns THEN row.text
    ELSE IF ORIGINAL_TEXT_COL \in DOMAIN row.audit THEN row.audit[ORIGINAL_TEXT_COL]
    ELSE NaN

\* lines 271-285: one row of merged as it is written
MergedRowRawLabel(row, columns) ==
    [global_id |-> row.global_id,
     source |-> row.source,
     text |-> row.text,
     label_orig |-> row.label_orig,
     label |-> row.label_orig,
     audit |-> row.audit,
     original_text |-> OriginalText(row, columns),
     origin |-> row.origin]

MergedRow(row, columns) ==
    [global_id |-> row.global_id,
     source |-> row.source,
     text |-> row.text,
     label_orig |-> row.label_orig,
     label |-> Revalidate(row.label),
     audit |-> row.audit,
     original_text |-> OriginalText(row, columns),
     origin |-> row.origin]

\* lines 271-285
BuildMerged ==
    /\ pc = "loop" /\ fi > Len(files)
    /\ ~NoRowsCollected
    /\ merged' = [k \in 1..Len(all_rows) |-> MergedRow(all_rows[k], FrameColumns(all_rows))]
    /\ merged_columns' = FrameColumns(all_rows) \cup {ORIGINAL_TEXT_COL}
    /\ pc' = "write_merged"
    /\ UNCHANGED <<cfgvars, files, fi, all_rows, per_file_counts, disk, outcome, writes,
                   callvars>>

\* line 287
WriteMerged ==
    /\ pc = "write_merged"
    /\ disk' = (OUTPUT_PATH :> [columns |-> merged_columns, rows |-> merged]) @@ disk
    /\ writes' = Append(writes, OUTPUT_PATH)
    /\ pc' = "write_dist"
    /\ UNCHANGED <<cfgvars, files, fi, all_rows, per_file_counts, merged, merged_columns,
                   outcome, callvars>>

RECURSIVE Sum(_, _)
Sum(f, S) == IF S = {} THEN 0 ELSE LET x == CHOOSE y \in S : TRUE IN f[x] + Sum(f, S \ {x})

CountRows(source, label) ==
    Cardinality({k \in 1..Len(merged) : merged[k].source = source /\ merged[k].label = label})

\* line 290: groupby('source')['label'].value_counts().unstack(fill_value=0): one
\* row per source of merged, one column per label value that occurs in merged
\* line 291: the total column
PerSourceRows ==
    LET labels == {merged[k].label : k \in 1..Len(merged)}
    IN  {[source |-> s,
          counts |-> [l \in labels |-> CountRows(s, l)],
          total |-> Sum([l \in labels |-> CountRows(s, l)], labels)] :
            s \in {merged[k].source : k \in 1..Len(merged)}}

\* line 292: sort_values('total', ascending=False); the order of rows with equal
\* totals is left to the sort, so every descending arrangement is a result
InOrderAscending(a, b) == a.total <= b.total

InOrder(a, b) == a.total >= b.total
SortedByTotal(rows) ==
    {t \in [1..Cardinality(rows) -> rows] :
        /\ \A r \in rows : \E j \in DOMAIN t : t[j] = r
        /\ \A j \in 1..(Cardinality(rows) - 1) : InOrder(t[j], t[j + 1])}

\* lines 290-293
WriteDist ==
    /\ pc = "write_dist"
    /\ \E per_src \in SortedByTotal(PerSourceRows) :
          disk' = (PER_SOURCE_DIST_OUT :>
                      [columns |-> {merged[k].label : k \in 1..Len(merged)} \cup {<<"t","o","t","a","l">>},
                       rows |-> per_src]) @@ disk
    /\ writes' = Append(writes, PER_SOURCE_DIST_OUT)
    /\ pc' = "write_summary"
    /\ UNCHANGED <<cfgvars, files, fi, all_rows, per_file_counts, merged, merged_columns,
                   outcome, callvars>>

\* lines 296-302
WriteSummary ==
    /\ pc = "write_summary"
    /\ disk' = (SUMMARY_JSON_OUT :>
                  [rows |-> Len(merged),
                   label_counts |->
                      [l \in {merged[k].label : k \in 1..Len(merged)} |->
                          Cardinality({k \in 1..Len(merged) : merged[k].label = l})],
                   files_processed_counts |-> per_file_counts]) @@ disk
    /\ writes' = Append(writes, SUMMARY_JSON_OUT)
    /\ pc' = "done"
    /\ UNCHANGED <<cfgvars, files, fi, all_rows, per_file_counts, merged, merged_columns,
                   outcome, callvars>>

\* the configuration a run starts from
InitConfig ==
    /\ DROP_UNMAPPED \in BOOLEAN
    /\ DEFAULT_MAP_TARGET \in DefaultTargets
    /\ DROP_EXACT_DUPLICATES \in BOOLEAN
    /\ KEEP_ALL_COLUMNS \in BOOLEAN
    /\ label_map \in LabelMaps

InitRun ==
    /\ files = << >>
    /\ fi = 0
    /\ all_rows = << >>
    /\ per_file_counts = << >>
    /\ merged = << >>
    /\ merged_columns = {}
    /\ disk = << >>
    /\ outcome = << >>
    /\ writes = << >>

InitMapperCall ==
    /\ m_src = None
    /\ m_lbl = None
    /\ m_out = None

\* no call of a function on its own has been made
InitCalls ==
    /\ InitMapperCall
    /\ n_text = None /\ n_out = None
    /\ c_df = NoTable /\ c_out = <<None, None, None>>
    /\ r_path = None /\ r_file = FileB /\ r_out = NoResult

\* lines 33-36 and 44-101 as the repository has them
RepositoryConfig ==
    /\ DROP_UNMAPPED = FALSE
    /\ DEFAULT_MAP_TARGET = <<"n","o","r","m","a","l">>
    /\ DROP_EXACT_DUPLICATES = FALSE
    /\ KEEP_ALL_COLUMNS = TRUE
    /\ label_map = get_label_map

\* the state when merge_all is called
Init ==
    /\ InitConfig
    /\ input_dir \in Directories
    /\ pc = "start"
    /\ InitRun
    /\ InitCalls

Next ==
    \/ Discover
    \/ SkipUnreadable
    \/ SkipNoText
    \/ CollectRows
    \/ RaiseNoRows
    \/ BuildMerged
    \/ WriteMerged
    \/ WriteDist
    \/ WriteSummary

Spec == Init /\ [][Next]_vars

\* ------------------------------------------------------------------ map_label_for_row alone

\* the source names and raw labels map_label_for_row is called with
MapperSources == {<<"a">>, <<"f">>, <<"z","z">>, << >>}
MapperLabels ==
    {None, NaN, << >>, <<" ">>, <<"\t", "NBSP">>, <<"y","e","s">>, <<" ","y","e","s"," ">>, <<" ","n","o">>, <<"n","o">>, <<"1">>, <<"2">>,
     <<"b","a","d">>, <<"h","a","t","e">>, <<"H","A","T","E">>, <<"H","a","t","e">>, <<"S","w","e","a","r">>, <<"s","w","e","a","r">>, <<"o","d","d">>, <<"w","e","i","r","d">>, <<"0">>, <<"C","l","e","a","n">>,
     <<"N","O","R","M","A","L">>, <<"a","l","l">>}

InitMapper ==
    /\ InitConfig
    /\ input_dir = << >>
    /\ pc = "mapper"
    /\ InitRun
    /\ InitCalls

CallMapper ==
    /\ pc = "mapper"
    /\ \E src \in MapperSources, lbl \in MapperLabels :
          /\ m_src' = src
          /\ m_lbl' = lbl
          /\ m_out' = map_label_for_row(src, lbl, label_map)
    /\ UNCHANGED <<cfgvars, pc, runvars, normvars, colvars, readvars>>

NextMapper == CallMapper

SpecMapper == InitMapper /\ [][NextMapper]_vars

\* ------------------------------------------------------------------ arabic_normalize alone

\* tatweel, the alef variants, bare alef, alef maqsura, yeh, diacritics, whitespace
\* and characters no step of arabic_normalize touches
NormalizerChars ==
    {"TATWEEL", "ALEF_MADDA", "ALEF_HAMZA_ABOVE", "ALEF_HAMZA_BELOW", "ALEF", "ALEF_MAKSURA",
     "YEH", "YEH_HAMZA", "FATHA", "MADDA_ABOVE", "HAMZA_ABOVE", "HAMZA_BELOW",
     "SUPERSCRIPT_ALEF", " ", "\t", "NBSP", "a", "B"}

\* the values arabic_normalize is called with
NormalizerTexts ==
    {None} \cup UNION {[1..n -> NormalizerChars] : n \in 0..MaxTextLen}

InitNormalizer ==
    /\ RepositoryConfig
    /\ input_dir = << >>
    /\ pc = "normalizer"
    /\ InitRun
    /\ InitCalls

CallNormalizer ==
    /\ pc = "normalizer"
    /\ \E text \in NormalizerTexts :
          /\ n_text' = text
          /\ n_out' = arabic_normalize(text)
    /\ pc' = "returned"
    /\ UNCHANGED <<cfgvars, runvars, mapvars, colvars, readvars>>

NextNormalizer == CallNormalizer

SpecNormalizer == InitNormalizer /\ [][NextNormalizer]_vars

\* ------------------------------------------------------------------ canonicalize_columns alone

\* column names: the first preferred text and label names, the same in another
\* letter case, other preferred names, an id candidate and a name of no list
ColumnNames == {<<"t","e","x","t">>, <<"T","e","x","t">>, <<"l","a","b","e","l">>, <<"L","A","B","E","L">>, <<"c","o","n","t","e","n","t">>, <<"t","a","r","g","e","t">>, <<"i","d">>, <<"n">>}

\* the tables canonicalize_columns is called with: up to MaxColumns columns of
\* different names in any order, all of them string-typed or none; no rows
ColumnTables ==
    LET orders == {c \in UNION {[1..n -> ColumnNames] : n \in 0..MaxColumns} :
                      \A j, k \in DOMAIN c : j # k => c[j] # c[k]}
    IN  {[columns |-> cs, strcols |-> Range(cs), rows |-> << >>] : cs \in orders}
            \cup {[columns |-> cs, strcols |-> {}, rows |-> << >>] : cs \in orders}

InitColumns ==
    /\ RepositoryConfig
    /\ input_dir = << >>
    /\ pc = "columns"
    /\ InitRun
    /\ InitCalls

CallColumns ==
    /\ pc = "columns"
    /\ \E df \in ColumnTables :
          /\ c_df' = df
          /\ c_out' = canonicalize_columns(df)
    /\ pc' = "returned"
    /\ UNCHANGED <<cfgvars, runvars, mapvars, normvars, readvars>>

NextColumns == CallColumns

SpecColumns == InitColumns /\ [][NextColumns]_vars

\* ------------------------------------------------------------------ safe_read_table alone

\* the paths safe_read_table is called with
ReaderPaths ==
    {<<"a",".","c","s","v">>, <<"d","1","/","b",".","t","s","v">>, <<"x",".","y","/","c",".","C","S","V">>, <<"c",".","j","s","o","n">>, <<"e",".","x","l","s","x">>, <<"e",".","x","l","s">>, <<"f",".","p","a","r","q","u","e","t">>,
     <<"n","o","t","e","s",".","t","x","t">>, <<"c","s","v">>}

\* the pandas calls of lines 121-133
ReaderAttempts == Range(Encodings) \cup {"json-lines", "json", "excel", "parquet"}

\* the files at those paths: any set of calls may succeed on a file
ReaderFiles == {[readable |-> ok, table |-> FileA1.table] : ok \in SUBSET ReaderAttempts}

InitReader ==
    /\ RepositoryConfig
    /\ input_dir = << >>
    /\ pc = "reader"
    /\ InitRun
    /\ InitCalls

CallReader ==
    /\ pc = "reader"
    /\ \E path \in ReaderPaths, f \in ReaderFiles :
          /\ r_path' = path
          /\ r_file' = f
          /\ r_out' = safe_read_table(path, f)
    /\ pc' = "returned"
    /\ UNCHANGED <<cfgvars, runvars, mapvars, normvars, colvars>>

NextReader == CallReader

SpecReader == InitReader /\ [][NextReader]_vars

\* ------------------------------------------------------------------ properties

\* the rows of the merged dataset on disk (none before line 287 has run)
Persisted == IF OUTPUT_PATH \in DOMAIN disk THEN disk[OUTPUT_PATH].rows ELSE << >>

\* the run is past the loop and has built merged
Built == pc \in {"write_merged", "write_dist", "write_summary", "done"}

Skipped == {"unreadable", "no_text"}

\* no override table has the trimmed label as a key and no keyword set has its
\* lower-cased form
Unresolvable(src, lbl_raw) ==
    LET t == TrimLabel(lbl_raw)
    IN  /\ \A key \in {src, <<"a","l","l">>, << >>} :
              key \in DOMAIN label_map => t \notin DOMAIN label_map[key]
        /\ t = << >> \/ Lower(t) \notin (NormalWords \cup OffensiveWords \cup ProfanityWords)

\* a configured value as a label: lower-cased and trimmed when that is canonical,
\* DEFAULT_MAP_TARGET otherwise
AsLabel(value) ==
    IF Strip(Lower(value)) \in CANONICAL_LABELS THEN Strip(Lower(value)) ELSE DEFAULT_MAP_TARGET

\* the table in the file at position k of files, and the text and the label of its
\* row r as the loop reads them (str values; the empty label without a label column)
InputTable(k) == input_dir[files[k]].table
InputText(k, r) ==
    Str(Cell(InputTable(k), InputTable(k).rows[r], canonicalize_columns(InputTable(k))[1]))
InputLabel(k, r) ==
    IF canonicalize_columns(InputTable(k))[2] = None THEN << >>
    ELSE Str(Cell(InputTable(k), InputTable(k).rows[r], canonicalize_columns(InputTable(k))[2]))

RowsOfSource(s) == Cardinality({j \in 1..Len(merged) : merged[j].source = s})

\* the rows of merged made from row r of the file at position k
RowsOf(k, r) == {j \in 1..Len(merged) : merged[j].origin = <<k, r>>}
Contributed(k) == Cardinality({j \in 1..Len(merged) : merged[j].origin[1] = k})

\* C1 as claimed: every row of the persisted merged dataset has a label in
\* {normal, offensive, profanity}, for every configuration.
C1_PersistedLabelsCanonical ==
    \A j \in 1..Len(Persisted) : Persisted[j].label \in CANONICAL_LABELS

\* C1 amended: every row of the persisted merged dataset has a label that is
\* canonical or equal to DEFAULT_MAP_TARGET, hence a canonical label whenever
\* DEFAULT_MAP_TARGET is one of normal, offensive, profanity.
C1_PersistedLabelsCanonicalOrDefault ==
    \A j \in 1..Len(Persisted) :
        /\ Persisted[j].label \in CANONICAL_LABELS \cup {DEFAULT_MAP_TARGET}
        /\ DEFAULT_MAP_TARGET \in CANONICAL_LABELS => Persisted[j].label \in CANONICAL_LABELS

\* a row whose override entry is no canonical label was persisted under a canonical default
C1_Witness ==
    /\ DEFAULT_MAP_TARGET \in CANONICAL_LABELS
    /\ \E j \in 1..Len(Persisted) :
          LookupOverride(Persisted[j].source, TrimLabel(Persisted[j].label_orig), label_map)
              \notin CANONICAL_LABELS \cup {None}

\* C2 as claimed: map_label_for_row returns a value in {normal, offensive, profanity}
\* for every source, raw label and label map, never an 'unmapped' marker.
C2_MapperAlwaysCanonical ==
    m_src # None => m_out \in CANONICAL_LABELS

\* C2 amended: map_label_for_row returns exactly one value; the value is None
\* exactly when DROP_UNMAPPED is set and no override table or keyword set resolves
\* the label; every other value is canonical or equal to DEFAULT_MAP_TARGET, hence
\* canonical whenever DEFAULT_MAP_TARGET is.
C2_MapperCanonicalOrDefaultOrDropped ==
    m_src # None =>
        /\ m_out = None <=> (DROP_UNMAPPED /\ Unresolvable(m_src, m_lbl))
        /\ m_out # None => m_out \in CANONICAL_LABELS \cup {DEFAULT_MAP_TARGET}
        /\ (m_out # None /\ DEFAULT_MAP_TARGET \in CANONICAL_LABELS) => m_out \in CANONICAL_LABELS

\* a whitespace-only label was mapped with DROP_UNMAPPED set and nothing resolving it
C2_Witness ==
    /\ m_src # None
    /\ m_lbl = <<"\t", "NBSP">>
    /\ DROP_UNMAPPED
    /\ m_out = None

\* C3 as claimed: for a raw label that is a key of the table of the row's source or
\* of the 'all' table, map_label_for_row returns exactly the configured value.
C3_OverrideValueReturnedExactly ==
    (m_src # None /\ m_lbl \notin {None, NaN}) =>
        IF m_src \in DOMAIN label_map /\ m_lbl \in DOMAIN label_map[m_src]
        THEN m_out = label_map[m_src][m_lbl]
        ELSE IF <<"a","l","l">> \in DOMAIN label_map /\ m_lbl \in DOMAIN label_map[<<"a","l","l">>]
        THEN m_out = label_map[<<"a","l","l">>][m_lbl]
        ELSE TRUE

\* C3 amended: for a raw label whose trimmed form is a key of the table of the
\* row's source or of the 'all' table, map_label_for_row returns the value
\* configured for the trimmed label (the source's table first, then 'all'),
\* lower-cased and trimmed when that is a canonical label, and DEFAULT_MAP_TARGET
\* otherwise.
C3_OverrideValueReturnedAsLabel ==
    m_src # None =>
        LET t == TrimLabel(m_lbl)
        IN  IF m_src \in DOMAIN label_map /\ t \in DOMAIN label_map[m_src]
            THEN m_out = AsLabel(label_map[m_src][t])
            ELSE IF <<"a","l","l">> \in DOMAIN label_map /\ t \in DOMAIN label_map[<<"a","l","l">>]
            THEN m_out = AsLabel(label_map[<<"a","l","l">>][t])
            ELSE TRUE

\* a padded label that both the table of its source and the 'all' table have, with
\* different values, was mapped to the value of the source's table
C3_Witness ==
    /\ m_src = <<"a">>
    /\ m_lbl = <<" ","y","e","s"," ">>
    /\ label_map = EditedLabelMap
    /\ m_out = <<"n","o","r","m","a","l">>

\* C4 as claimed: the global_id values of the rows of the merged dataset are
\* pairwise distinct, for any directory layout and any files.
C4_GlobalIdsDistinct ==
    \A j, k \in 1..Len(Persisted) : j # k => Persisted[j].global_id # Persisted[k].global_id

\* what C5 says of every input row, with the label an unresolvable row is kept with
RowIncludedIffNotDropped(kept_label) ==
    Built =>
        \A k \in 1..Len(files) : \A r \in 1..Len(InputTable(k).rows) :
            LET unresolved == Unresolvable(SourceName(k), InputLabel(k, r))
            IN  /\ RowsOf(k, r) # {} <=>
                      /\ ReadResult(k).ok
                      /\ canonicalize_columns(InputTable(k))[1] # None
                      /\ ~(DROP_UNMAPPED /\ unresolved)
                /\ unresolved => \A j \in RowsOf(k, r) : merged[j].label = kept_label

\* C5 as claimed: an input row is in the merged dataset iff its file loaded, a text
\* column was found and the row was not dropped; it is dropped only when
\* DROP_UNMAPPED is set and its label is unresolved; an unresolved label that is
\* kept is kept as DEFAULT_MAP_TARGET.
C5_RowIncludedIffNotDropped ==
    RowIncludedIffNotDropped(DEFAULT_MAP_TARGET)

\* C5 amended: as claimed, but an unresolved label that is kept is kept as
\* DEFAULT_MAP_TARGET lower-cased and trimmed when that is a canonical label, and as
\* DEFAULT_MAP_TARGET itself otherwise (so as DEFAULT_MAP_TARGET itself whenever
\* DEFAULT_MAP_TARGET is canonical).
C5_RowIncludedIffNotDroppedAsLabel ==
    RowIncludedIffNotDropped(AsLabel(DEFAULT_MAP_TARGET))

\* with DROP_UNMAPPED set, a file was collected of which one row is in the merged
\* dataset and another, its label unresolved, is not
C5_Witness ==
    /\ pc = "done"
    /\ DROP_UNMAPPED
    /\ \E k \in 1..Len(files) : \E r, q \in 1..Len(InputTable(k).rows) :
          /\ outcome[k] = "collected"
          /\ RowsOf(k, r) = {} /\ Unresolvable(SourceName(k), InputLabel(k, r))
          /\ RowsOf(k, q) # {}

\* C6: the run ends in the fatal error exactly when the loop over all files has
\* collected zero rows, and then no output artifact has been written.
C6_FatalExactlyWhenNoRows ==
    /\ pc = "failed" => (Len(all_rows) = 0 /\ fi > Len(files) /\ DOMAIN disk = {})
    /\ Built => Len(all_rows) > 0
    /\ (pc = "loop" /\ fi > Len(files) /\ Len(all_rows) = 0) =>
          (ENABLED RaiseNoRows /\ ~ENABLED BuildMerged)

\* the run failed although a file was read and had a text column: all its rows were dropped
C6_Witness ==
    /\ pc = "failed"
    /\ \E k \in 1..Len(outcome) : outcome[k] = "collected"

\* C7: a file that cannot be read or has no text column does not end the run: the
\* loop goes on to the next file with the rows collected so far unchanged, and when
\* the loop is over it has been at every discovered file.
C7_SkippedFileNeverAborts ==
    /\ [](pc \notin {"start", "loop", "mapper"} => Len(outcome) = Len(files))
    /\ [][(pc = "loop" /\ fi <= Len(files)
            /\ (~ReadResult(fi).ok \/ ColumnRoles(fi)[1] = None))
          => (pc' = "loop" /\ fi' = fi + 1 /\ files' = files /\ all_rows' = all_rows)]_vars

\* a run completed in which an unreadable file came after a file that gave rows and
\* before another file that was processed
C7_Witness ==
    /\ pc = "done"
    /\ \E i, j, k \in 1..Len(outcome) :
          /\ i < j /\ j < k
          /\ outcome[i] = "collected" /\ Contributed(i) > 0
          /\ outcome[j] = "unreadable"
          /\ outcome[k] \in {"collected", "no_text"}

\* C8 as claimed: files_processed_counts of the summary has an entry for every
\* discovered file, giving the number of rows the file contributed, zero for a
\* skipped file.
C8_EveryFileHasCountEntry ==
    SUMMARY_JSON_OUT \in DOMAIN disk =>
        \A k \in 1..Len(files) :
            /\ SourceName(k) \in DOMAIN disk[SUMMARY_JSON_OUT].files_processed_counts
            /\ disk[SUMMARY_JSON_OUT].files_processed_counts[SourceName(k)] = Contributed(k)

\* C8 amended: files_processed_counts of the summary has exactly one entry for
\* every source name (file stem) of a file that was read and had a text column,
\* giving the number of rows contributed by the last such file of that name (zero
\* when all its rows were dropped); a file skipped for a load failure or a missing
\* text column adds no entry.
C8_CountEntryPerCollectedSource ==
    SUMMARY_JSON_OUT \in DOMAIN disk =>
        LET counts == disk[SUMMARY_JSON_OUT].files_processed_counts
            collected == {k \in 1..Len(files) : outcome[k] = "collected"}
        IN  /\ DOMAIN counts = {SourceName(k) : k \in collected}
            /\ \A k \in collected :
                  (\A j \in collected : SourceName(j) = SourceName(k) => j <= k)
                      => counts[SourceName(k)] = Contributed(k)

\* a summary was written after a skipped file, which has no entry, and a file all
\* of whose rows were dropped, which has a zero entry
C8_Witness ==
    /\ SUMMARY_JSON_OUT \in DOMAIN disk
    /\ \E k \in 1..Len(files) :
          /\ outcome[k] \in Skipped
          /\ SourceName(k) \notin DOMAIN disk[SUMMARY_JSON_OUT].files_processed_counts
    /\ \E k \in 1..Len(files) :
          /\ outcome[k] = "collected"
          /\ disk[SUMMARY_JSON_OUT].files_processed_counts[SourceName(k)] = 0

\* C9 as claimed: in every row of the merged dataset original_text is the text of
\* the input row before arabic_normalize and text is the normalized text.
C9_OriginalTextIsUnnormalized ==
    \A j \in 1..Len(Persisted) :
        /\ Persisted[j].original_text = InputText(Persisted[j].origin[1], Persisted[j].origin[2])
        /\ Persisted[j].text = arabic_normalize(InputText(Persisted[j].origin[1], Persisted[j].origin[2]))

\* what C10 says of the distribution table, with the label columns it has
DistributionTable(label_columns) ==
    PER_SOURCE_DIST_OUT \in DOMAIN disk =>
        LET dist == disk[PER_SOURCE_DIST_OUT]
            sources == {merged[k].source : k \in 1..Len(merged)}
        IN  /\ Len(dist.rows) = Cardinality(sources)
            /\ {dist.rows[j].source : j \in 1..Len(dist.rows)} = sources
            /\ dist.columns = label_columns \cup {<<"t","o","t","a","l">>}
            /\ \A j \in 1..Len(dist.rows) :
                  /\ DOMAIN dist.rows[j].counts = label_columns
                  /\ \A l \in label_columns :
                        dist.rows[j].counts[l] = CountRows(dist.rows[j].source, l)
                  /\ dist.rows[j].total = RowsOfSource(dist.rows[j].source)
            /\ \A j \in 1..(Len(dist.rows) - 1) : dist.rows[j].total >= dist.rows[j + 1].total

\* C10 as claimed: one row per source of the merged dataset, a column for each of
\* the three canonical labels (also for a label no row carries) and a total column
\* that is the sum of the source's label counts, rows in non-increasing order of total.
C10_DistributionHasThreeLabelColumns ==
    DistributionTable(CANONICAL_LABELS)

\* C10 amended: one row per source of the merged dataset, a column for each label
\* value that at least one row of the merged dataset carries (no column for a
\* label no row carries) and a total column that is the sum of the source's label
\* counts, rows in non-increasing order of total.
C10_DistributionHasColumnsOfLabelsPresent ==
    DistributionTable({merged[k].label : k \in 1..Len(merged)})

\* a table was written for sources of different totals, the source that sorts first
\* by name having the smaller one, while some canonical label is on no row
C10_Witness ==
    /\ PER_SOURCE_DIST_OUT \in DOMAIN disk
    /\ \E a, b \in {merged[k].source : k \in 1..Len(merged)} :
          StrLess(a, b) /\ RowsOfSource(a) < RowsOfSource(b)
    /\ \E l \in CANONICAL_LABELS : \A k \in 1..Len(merged) : merged[k].label # l

Layers(src, t) ==
    LET table(key) == IF key \in DOMAIN label_map /\ t \in DOMAIN label_map[key]
                      THEN <<label_map[key][t]>> ELSE << >>
        words(set, label) == IF t # << >> /\ Lower(t) \in set THEN <<label>> ELSE << >>
    IN  <<table(src), table(<<"a","l","l">>), table(<< >>),
          words(NormalWords, <<"n","o","r","m","a","l">>), words(OffensiveWords, <<"o","f","f","e","n","s","i","v","e">>),
          words(ProfanityWords, <<"p","r","o","f","a","n","i","t","y">>)>>

\* what C12 says of the last call, with the result of a call no layer has an
\* entry for
FirstMatchingLayerWins(fallback) ==
    m_src # None =>
        LET entries == Layers(m_src, TrimLabel(m_lbl))
            hits == {i \in DOMAIN entries : entries[i] # << >>}
        IN  IF hits # {}
            THEN m_out = AsLabel(entries[Min(hits)][1])
            ELSE m_out = fallback

\* C12 as claimed: map_label_for_row resolves in a fixed order, the first match
\* wins: the table of the row's source, the 'all' table, the table under the empty
\* key, then for a non-empty trimmed label the normal, offensive and profanity
\* keyword sets on its lower-cased form, then the configured default; the result
\* comes from the first layer that has an entry.
C12_FirstMatchThenDefault ==
    FirstMatchingLayerWins(AsLabel(DEFAULT_MAP_TARGET))

\* C12 amended: the same order of layers, the result coming from the first layer
\* that has an entry; when no layer has one the last step is the configured
\* default with DROP_UNMAPPED false and no label at all (the row is dropped) with
\* DROP_UNMAPPED true.
C12_FirstMatchThenDefaultOrDrop ==
    FirstMatchingLayerWins(IF DROP_UNMAPPED THEN None ELSE AsLabel(DEFAULT_MAP_TARGET))

\* a label that the table of its source maps to one class and the keyword sets to
\* another came back with the class of the table
C12_Witness ==
    /\ m_src = <<"a">>
    /\ m_lbl = <<"1">>
    /\ label_map = EditedLabelMap
    /\ Len(Layers(m_src, m_lbl)[1]) = 1
    /\ Len(Layers(m_src, m_lbl)[5]) = 1
    /\ m_out = <<"p","r","o","f","a","n","i","t","y">>

\* ---- C13 ----
\* C13 as claimed: rows of the merged dataset that share a normalized text are
\* removed from the persisted dataset exactly when DROP_EXACT_DUPLICATES is set:
\* with the flag set no persisted row has the text of an earlier one, with the
\* flag unset every accepted row is persisted.
C13_DuplicatesRemovedIffFlagSet ==
    OUTPUT_PATH \in DOMAIN disk =>
        IF DROP_EXACT_DUPLICATES
        THEN duplicates_count(Persisted) = 0
        ELSE Len(Persisted) = Len(all_rows)

\* ---- C14 ----
\* C14: no artifact is written twice, an artifact is written only after the last
\* discovered file has been processed (collected or skipped), nothing is on disk
\* while files are still being processed, and a completed run has written the
\* merged dataset, the per-source distribution and the summary.
C14_ArtifactsWrittenOnceAfterLoop ==
    /\ \A j, k \in DOMAIN writes : j # k => writes[j] # writes[k]
    /\ DOMAIN disk = Range(writes)
    /\ writes # << >> =>
          /\ pc \notin {"start", "loop"}
          /\ fi = Len(files) + 1
          /\ Len(outcome) = Len(files)
    /\ pc = "done" => Range(writes) = Artifacts /\ Len(writes) = 3

\* a completed run over three files, one of them skipped, that wrote the three
\* artifacts one after the other
C14_Witness ==
    /\ pc = "done"
    /\ Len(files) = 3
    /\ \E k \in DOMAIN outcome : outcome[k] # "collected"
    /\ \E k \in DOMAIN outcome : outcome[k] = "collected"
    /\ writes = <<OUTPUT_PATH, PER_SOURCE_DIST_OUT, SUMMARY_JSON_OUT>>

\* ---- C15 ----
\* C15 as claimed: for a table that has a column named text and a column named
\* label, canonicalize_columns returns text as the text column and label as the
\* label column, whatever other columns the table has (other preferred names,
\* names that differ from these only in letter case) and in whatever order.
C15_LiteralTextAndLabelChosen ==
    (pc = "returned" /\ {<<"t","e","x","t">>, <<"l","a","b","e","l">>} \subseteq Range(c_df.columns)) =>
        /\ c_out[1] = <<"t","e","x","t">>
        /\ c_out[2] = <<"l","a","b","e","l">>

\* ---- C16 ----
\* the last call was for a path with the extension .csv or .tsv in any letter case
DelimitedCall ==
    /\ pc = "returned"
    /\ r_path # None
    /\ Lower(SplitExt(Basename(r_path))[2]) \in {<<".","c","s","v">>, <<".","t","s","v">>}

\* C16 as claimed: for a .csv or .tsv file safe_read_table tries utf-8, utf-8-sig,
\* latin1, cp1256 in this order and returns the table of the first attempt that
\* succeeds without trying a later encoding; when every attempt fails it fails
\* with an error that names the file and carries the cause of the last failed
\* attempt.
C16_EncodingsInOrderAndErrorNamesFile ==
    DelimitedCall =>
        LET good == {k \in DOMAIN Encodings : Encodings[k] \in r_file.readable}
        IN  IF good # {}
            THEN /\ r_out.ok
                 /\ r_out.df = r_file.table
                 /\ r_out.tried = SubSeq(Encodings, 1, Min(good))
            ELSE /\ ~r_out.ok
                 /\ r_out.tried = Encodings
                 /\ r_out.error.path = r_path
                 /\ r_out.error.cause = Encodings[Len(Encodings)]

====
